---- MODULE Spec2Model ----
(***************************************************************************)
(* A model of music_organizer.py: the MusicOrganizer class, its filename   *)
(* sanitizer, its metadata resolution, its destination-path builder, its   *)
(* placement executor and its album-art propagation, run over a small      *)
(* filesystem.                                                             *)
(*                                                                         *)
(* Strings are TLA+ strings; a path is the sequence of its segments below  *)
(* the filesystem root (pathlib's parts without the anchor).               *)
(***************************************************************************)
EXTENDS Integers, Sequences, FiniteSets, TLC

VARIABLES
    source_dir,                 \* self.source_dir (resolved)
    dest_dir,                   \* self.dest_dir (resolved)
    dry_run,                    \* self.dry_run
    acoustid_api_key,           \* self.acoustid_api_key is set
    move_files,                 \* self.move_files
    processed_album_art_dirs,   \* self.processed_album_art_dirs
    stats,                      \* self.stats
    fs,                         \* the filesystem: path -> entry
    faulty,                     \* files whose transfer raises (unreadable)
    pc,                         \* position in organize()
    audio_files,                \* organize()'s local audio_files
    calls,                      \* history: the files organize_file was called on
    last,                       \* history: what the last organize_file call did
    art_log,                    \* history: one entry per copy_album_art call
    raised,                     \* history: organize_file calls that raised
    transfers,                  \* history: track copies and moves of this run
    summary_printed,            \* history: print_summary was called
    run,                        \* which run of the program this is
    fs0,                        \* history: the filesystem when run 1 started
    name_in,                    \* sanitizer harness: the input string
    name_out,                   \* sanitizer harness: sanitize_filename(name_in)
    name_twice                  \* sanitizer harness: sanitize_filename(name_out)

org_vars == <<source_dir, dest_dir, dry_run, acoustid_api_key, move_files,
              processed_album_art_dirs, stats, fs, faulty, pc, audio_files,
              calls, last, art_log, raised, transfers, summary_printed, run, fs0>>

san_vars == <<name_in, name_out, name_twice>>

vars == <<org_vars, san_vars>>

(***************************************************************************)
(* Bounds of the model                                                     *)
(***************************************************************************)

\* audio files in the library at the start
MaxFiles == 2

\* runs of the program in a row
MaxRuns == 2

\* characters around the padding of a sanitizer input
MaxAffix == 2

(***************************************************************************)
(* Strings                                                                 *)
(***************************************************************************)

Char(s, i) == SubSeq(s, i, i)

\* the characters re.sub(r'[<>:"/\\|?*]', '', name) removes
InvalidChars == {"<", ">", ":", "\"", "/", "\\", "|", "?", "*"}

\* the characters \s matches
WhitespaceChars == {" ", "\t", "\n", "\r", "\f"}

\* the characters name.strip('. ') strips
StripChars == {".", " "}

\* the truncation limit of sanitize_filename
MAX_NAME_LEN == 200

\* the operators below split a string in halves, so that the evaluation
\* of a long string stays shallow

\* re.sub(r'[<>:"/\\|?*]', '', name)
RECURSIVE RemoveInvalid(_)
RemoveInvalid(s) ==
    IF Len(s) = 0 THEN ""
    ELSE IF Len(s) = 1 THEN (IF s \in InvalidChars THEN "" ELSE s)
    ELSE RemoveInvalid(SubSeq(s, 1, Len(s) \div 2))
            \o RemoveInvalid(SubSeq(s, Len(s) \div 2 + 1, Len(s)))

\* what re.sub(r'\s+', ' ', s) leaves of s[lo..hi]: a space for the first
\* character of a run of whitespace, nothing for the rest of the run
RECURSIVE CollapseRange(_, _, _)
CollapseRange(s, lo, hi) ==
    IF lo > hi THEN ""
    ELSE IF lo = hi
         THEN IF Char(s, lo) \notin WhitespaceChars THEN Char(s, lo)
              ELSE IF lo > 1 /\ Char(s, lo - 1) \in WhitespaceChars THEN ""
              ELSE " "
    ELSE CollapseRange(s, lo, (lo + hi) \div 2)
            \o CollapseRange(s, (lo + hi) \div 2 + 1, hi)

CollapseWhitespace(s) == CollapseRange(s, 1, Len(s))

\* name.strip('. ')
Strip(s) ==
    LET keep == {i \in 1..Len(s) : Char(s, i) \notin StripChars}
    IN  IF keep = {} THEN ""
        ELSE SubSeq(s, CHOOSE i \in keep : \A j \in keep : i <= j,
                       CHOOSE i \in keep : \A j \in keep : j <= i)

Truncate(s) == IF Len(s) > MAX_NAME_LEN THEN SubSeq(s, 1, MAX_NAME_LEN) ELSE s

sanitize_filename(name) ==
    LET n1 == RemoveInvalid(name)
        n2 == CollapseWhitespace(n1)
        n3 == Strip(n2)
        n4 == Truncate(n3)
    IN  IF n4 # "" THEN n4 ELSE "Unknown"

(***************************************************************************)
(* More strings: lower(), split('/')[0], zfill(2), pathlib's suffix        *)
(***************************************************************************)

UpperLetters == "ABCDEFGHIJKLMNOPQRSTUVWXYZ"

LowerLetters == "abcdefghijklmnopqrstuvwxyz"

LowerChar(c) ==
    IF \E i \in 1..Len(UpperLetters) : Char(UpperLetters, i) = c
    THEN Char(LowerLetters, CHOOSE i \in 1..Len(UpperLetters) : Char(UpperLetters, i) = c)
    ELSE c

\* str.lower()
RECURSIVE Lower(_)
Lower(s) ==
    IF Len(s) = 0 THEN ""
    ELSE IF Len(s) = 1 THEN LowerChar(s)
    ELSE Lower(SubSeq(s, 1, Len(s) \div 2)) \o Lower(SubSeq(s, Len(s) \div 2 + 1, Len(s)))

\* s.rfind(c), 1-based; 0 when c does not occur
RFind(s, c) ==
    IF \E i \in 1..Len(s) : Char(s, i) = c
    THEN CHOOSE i \in 1..Len(s) :
            Char(s, i) = c /\ \A j \in (i + 1)..Len(s) : Char(s, j) # c
    ELSE 0

\* s.find(c), 1-based; 0 when c does not occur
Find(s, c) ==
    IF \E i \in 1..Len(s) : Char(s, i) = c
    THEN CHOOSE i \in 1..Len(s) :
            Char(s, i) = c /\ \A j \in 1..(i - 1) : Char(s, j) # c
    ELSE 0

\* PurePath.suffix of a final component
Suffix(name) ==
    LET i == RFind(name, ".")
    IN  IF 1 < i /\ i < Len(name) THEN SubSeq(name, i, Len(name)) ELSE ""

\* track.split('/')[0]
SplitFirst(s) ==
    LET i == Find(s, "/")
    IN  IF i = 0 THEN s ELSE SubSeq(s, 1, i - 1)

\* str.zfill(2)
ZFill2(s) ==
    IF Len(s) >= 2 THEN s
    ELSE IF s = "" THEN "00"
    ELSE IF s \in {"+", "-"} THEN s \o "0"
    ELSE "0" \o s

(***************************************************************************)
(* Paths and the filesystem                                                *)
(***************************************************************************)

Parent(p) == SubSeq(p, 1, Len(p) - 1)

Name(p) == p[Len(p)]

IsPrefix(a, b) == Len(a) <= Len(b) /\ SubSeq(b, 1, Len(a)) = a

IsProperPrefix(a, b) == Len(a) < Len(b) /\ IsPrefix(a, b)

Range(s) == {s[i] : i \in 1..Len(s)}

\* the segments a string contributes when joined to a path with "/"
RECURSIVE Parts(_)
Parts(s) ==
    LET i == Find(s, "/")
        head == IF i = 0 THEN s ELSE SubSeq(s, 1, i - 1)
        rest == IF i = 0 THEN "" ELSE SubSeq(s, i + 1, Len(s))
        here == IF head \in {"", "."} THEN <<>> ELSE <<head>>
    IN  IF s = "" THEN <<>> ELSE here \o Parts(rest)

\* PurePath.__truediv__ with a string operand
Join(p, s) == IF s # "" /\ Char(s, 1) = "/" THEN Parts(s) ELSE p \o Parts(s)

DirEntry == [kind |-> "dir", content |-> ""]

FileEntry(c) == [kind |-> "file", content |-> c]

Exists(f, p) == p = <<>> \/ p \in DOMAIN f

IsDir(f, p) == p = <<>> \/ (p \in DOMAIN f /\ f[p].kind = "dir")

IsFile(f, p) == p \in DOMAIN f /\ f[p].kind = "file"

Prefixes(p) == {SubSeq(p, 1, k) : k \in 1..Len(p)}

\* Path.mkdir(parents=True, exist_ok=True) raises when a component is a file
MkdirRaises(f, p) == \E q \in Prefixes(p) : IsFile(f, q)

MkdirResult(f, p) ==
    [q \in DOMAIN f \cup Prefixes(p) |-> IF q \in DOMAIN f THEN f[q] ELSE DirEntry]

WriteFile(f, p, c) == [q \in DOMAIN f \cup {p} |-> IF q = p THEN FileEntry(c) ELSE f[q]]

RemovePath(f, p) == [q \in DOMAIN f \ {p} |-> f[q]]

\* where shutil.copy2 / shutil.move write: into dst when dst is a directory
RealDst(f, src, dst) == IF IsDir(f, dst) THEN dst \o <<Name(src)>> ELSE dst

\* shutil.copy2(src, dst) raises: src unreadable, or no directory to write into
CopyRaises(f, bad, src, dst) ==
    \/ ~IsFile(f, src)
    \/ src \in bad
    \/ ~IsDir(f, Parent(RealDst(f, src, dst)))
    \/ IsDir(f, RealDst(f, src, dst))
    \/ RealDst(f, src, dst) = src

CopyResult(f, src, dst) == WriteFile(f, RealDst(f, src, dst), f[src].content)

\* shutil.move(src, dst) raises: dst is a directory that already holds the name
MoveRaises(f, bad, src, dst) ==
    \/ ~IsFile(f, src)
    \/ src \in bad
    \/ IsDir(f, dst) /\ Exists(f, dst \o <<Name(src)>>)
    \/ ~IsDir(f, Parent(RealDst(f, src, dst)))

MoveResult(f, src, dst) ==
    RemovePath(WriteFile(f, RealDst(f, src, dst), f[src].content), src)

(***************************************************************************)
(* File contents.  An audio file's content decides what the tag reader     *)
(* (mutagen) and the fingerprint services (AcoustID, MusicBrainz) answer   *)
(* for it; copying or moving a file carries its content along.             *)
(*   readable : MutagenFile returns an object (it neither raises nor       *)
(*              returns None)                                              *)
(*   tags     : the raw tag mapping of that object                         *)
(*   matches  : acoustid.match's results, in order; score in percent; mb   *)
(*              is what musicbrainzngs.get_recording_by_id does for the    *)
(*              recording: "album" (a release list), "noalbum" (none),     *)
(*              "fail" (it raises)                                         *)
(***************************************************************************)

EmptyDict == [k \in {} |-> ""]

NoMatches == <<>>

Match(score, title, artist, mb, album) ==
    [score |-> score, title |-> title, artist |-> artist, mb |-> mb, album |-> album]

Content(c) ==
    CASE c = "full" ->
            [readable |-> TRUE,
             tags |-> [artist |-> "A/B", album |-> "Best*Of", title |-> "Song",
                       tracknumber |-> "2/10"],
             matches |-> NoMatches]
      [] c = "bare" ->
            [readable |-> TRUE, tags |-> EmptyDict, matches |-> NoMatches]
      [] c = "same" ->
            [readable |-> TRUE,
             tags |-> [albumartist |-> " A/B.", ALBUM |-> "BestOf", title |-> "Song",
                       TRCK |-> "02"],
             matches |-> NoMatches]
      [] c = "bucket" ->
            [readable |-> TRUE,
             tags |-> [artist |-> "unorganized.", album |-> "Misc", title |-> "Intro"],
             matches |-> NoMatches]
      [] c = "dotted" ->
            [readable |-> TRUE,
             tags |-> [artist |-> "a.mp3", album |-> "B", title |-> "T"],
             matches |-> NoMatches]
      [] c = "partial" ->
            [readable |-> TRUE,
             tags |-> [artist |-> "X", tracknumber |-> "7"],
             matches |-> <<Match(90, "Tune", "Y", "album", "Live")>>]
      [] c = "broken" ->
            [readable |-> FALSE, tags |-> EmptyDict,
             matches |-> <<Match(40, "Guess", "Nobody", "album", "Never"),
                           Match(80, "Tune", "Y", "fail", "")>>]
      [] OTHER ->
            [readable |-> FALSE, tags |-> EmptyDict, matches |-> NoMatches]

\* score > 0.5, in percent
CONFIDENCE_THRESHOLD == 50

AUDIO_EXTENSIONS == {".mp3", ".flac", ".m4a", ".mp4", ".ogg", ".opus", ".wma", ".wav", ".aac"}

IMAGE_EXTENSIONS == {".jpg", ".jpeg", ".png"}

\* the candidate tag keys, in order (the copyright sign of the MP4 keys is left out)
ArtistKeys == <<"artist", "albumartist", "TPE1", "TPE2", "ART", "ARTIST">>

AlbumKeys == <<"album", "TALB", "alb", "ALBUM">>

TitleKeys == <<"title", "TIT2", "nam", "TITLE">>

TrackKeys == <<"tracknumber", "TRCK", "trkn", "TRACKNUMBER">>

\* for key in keys: if key in audio: ...; break
HasKey(tags, keys) == \E i \in 1..Len(keys) : keys[i] \in DOMAIN tags

FirstKey(tags, keys) ==
    keys[CHOOSE i \in 1..Len(keys) :
            keys[i] \in DOMAIN tags /\ \A j \in 1..(i - 1) : keys[j] \notin DOMAIN tags]

\* track.split('/')[0].zfill(2)
TrackNumber(raw) == ZFill2(SplitFirst(raw))

get_metadata(f, file_path) ==
    LET audio == IF IsFile(f, file_path) THEN Content(f[file_path].content)
                 ELSE Content("")
        tags == audio.tags
    IN  IF ~audio.readable \/ DOMAIN tags = {} THEN EmptyDict
        ELSE   (IF HasKey(tags, ArtistKeys)
                THEN "artist" :> tags[FirstKey(tags, ArtistKeys)] ELSE EmptyDict)
            @@ (IF HasKey(tags, AlbumKeys)
                THEN "album" :> tags[FirstKey(tags, AlbumKeys)] ELSE EmptyDict)
            @@ (IF HasKey(tags, TitleKeys)
                THEN "title" :> tags[FirstKey(tags, TitleKeys)] ELSE EmptyDict)
            @@ (IF HasKey(tags, TrackKeys)
                THEN "track" :> TrackNumber(tags[FirstKey(tags, TrackKeys)])
                ELSE EmptyDict)

\* get_metadata_from_acoustid: found is FALSE for None; counted is whether
\* stats['metadata_found'] was incremented
NoLookup == [found |-> FALSE, md |-> EmptyDict, counted |-> FALSE]

Confident(m) == m.score > CONFIDENCE_THRESHOLD

get_metadata_from_acoustid(key, f, file_path) ==
    LET results == IF IsFile(f, file_path) THEN Content(f[file_path].content).matches
                   ELSE NoMatches
        hits == {i \in 1..Len(results) : Confident(results[i])}
        m == results[CHOOSE i \in hits : \A j \in hits : i <= j]
        base == [title |-> m.title, artist |-> m.artist]
    IN  IF ~key \/ hits = {} THEN NoLookup
        ELSE IF m.mb = "fail" THEN [found |-> TRUE, md |-> base, counted |-> FALSE]
        ELSE IF m.mb = "album"
             THEN [found |-> TRUE, md |-> ("album" :> m.album) @@ base, counted |-> TRUE]
        ELSE [found |-> TRUE, md |-> base, counted |-> TRUE]

\* metadata.update(acoustid_metadata)
DictUpdate(metadata, other) == other @@ metadata

RequiredKeys == {"artist", "album", "title"}

Sufficient(metadata) == RequiredKeys \subseteq DOMAIN metadata

\* a variant that uses the tag values as they are
SegmentRaw(name) == name

Segment(name) == sanitize_filename(name)

TrackFilename(metadata, title, suffix) ==
    IF "track" \in DOMAIN metadata
    THEN metadata["track"] \o " - " \o title \o suffix
    ELSE title \o suffix

get_destination_path(dest, file_path, metadata) ==
    IF Sufficient(metadata)
    THEN LET artist == Segment(metadata["artist"])
             album == Segment(metadata["album"])
             title == Segment(metadata["title"])
             filename == TrackFilename(metadata, title, Suffix(Name(file_path)))
         IN  Join(Join(Join(dest, artist), album), filename)
    ELSE Join(Join(dest, "unorganized"), Name(file_path))

(***************************************************************************)
(* copy_album_art.  The mutable part of the program is passed around as a  *)
(* record st = [fs, stats, processed, art_log, transfers]; an operation    *)
(* that depends on the directory enumeration order returns the set of its  *)
(* possible results.                                                       *)
(***************************************************************************)

\* a variant that forgets the .jpeg covers
CoverExtsWritten == <<".jpg", ".png">>

CoverExts == <<".jpg", ".jpeg", ".png">>

\* the loop over ['.jpg', '.jpeg', '.png'] looking for an existing cover
ExistingCovers(f, dest_album_dir) ==
    {CoverExts[i] : i \in {j \in 1..Len(CoverExts) :
                            Exists(f, dest_album_dir \o <<"cover" \o CoverExts[j]>>)}}

\* item.is_file() and item.suffix.lower() in IMAGE_EXTENSIONS, over iterdir()
ImageFiles(f, dir) ==
    {p \in DOMAIN f : /\ Len(p) = Len(dir) + 1
                      /\ Parent(p) = dir
                      /\ IsFile(f, p)
                      /\ Lower(Suffix(Name(p))) \in IMAGE_EXTENSIONS}

DestExt(source_image) ==
    LET e == Lower(Suffix(Name(source_image)))
    IN  IF e = ".jpeg" THEN ".jpg" ELSE e

DestImage(dest_album_dir, source_image) ==
    dest_album_dir \o <<"cover" \o DestExt(source_image)>>

\* a variant that never finds a directory in the visited set
AlreadyProcessedNever(processed, key) == FALSE

AlreadyProcessed(processed, key) == key \in processed

\* history: what one call of copy_album_art did; image is the image file it
\* chose and wrote the path it wrote (<<>> for none)
ArtEvent(src, dest, outcome, image, wrote) ==
    [src |-> src, dest |-> dest, outcome |-> outcome, image |-> image, wrote |-> wrote]

LogArt(st, e) == [st EXCEPT !.art_log = Append(@, e)]

copy_album_art(st, src, dest_album_dir) ==
    LET marked == [st EXCEPT !.processed = @ \cup {src}]
        covers == ExistingCovers(st.fs, dest_album_dir)
        image_files == ImageFiles(st.fs, src)
        Ev(outcome, image, wrote) == ArtEvent(src, dest_album_dir, outcome, image, wrote)
        Copy(img) ==
            LET dest_image == DestImage(dest_album_dir, img)
            IN  IF dry_run THEN LogArt(marked, Ev("dry_run", img, <<>>))
                ELSE IF CopyRaises(st.fs, faulty, img, dest_image)
                     THEN LogArt(marked, Ev("copy_failed", img, <<>>))
                ELSE LogArt([marked EXCEPT
                                !.fs = CopyResult(st.fs, img, dest_image),
                                !.stats.album_art_copied = @ + 1],
                            Ev("copied", img, RealDst(st.fs, img, dest_image)))
    IN  IF AlreadyProcessed(st.processed, src)
        THEN {LogArt(st, Ev("visited", <<>>, <<>>))}
        ELSE IF covers # {} THEN {LogArt(marked, Ev("has_cover", <<>>, <<>>))}
        ELSE IF image_files = {} THEN {LogArt(marked, Ev("no_image", <<>>, <<>>))}
        ELSE {Copy(img) : img \in image_files}

(***************************************************************************)
(* organize_file                                                           *)
(***************************************************************************)

AlreadyInPlace(file_path, dest_path) == file_path = dest_path

\* a variant with the mode test inverted
SkipExistingInverted(f, dest_path) == move_files /\ Exists(f, dest_path)

SkipExisting(f, dest_path) == ~move_files /\ Exists(f, dest_path)

IsUnorganized(dest_path) == "unorganized" \in Range(dest_path)

Count(st, counter) == [st EXCEPT !.stats[counter] = @ + 1]

\* the merged metadata of a file
Resolve(f, file_path) ==
    LET tags == get_metadata(f, file_path)
        looked_up == ~Sufficient(tags)
        lookup == IF looked_up
                  THEN get_metadata_from_acoustid(acoustid_api_key, f, file_path)
                  ELSE NoLookup
    IN  [tags |-> tags, looked_up |-> looked_up, lookup |-> lookup,
         metadata |-> IF lookup.found THEN DictUpdate(tags, lookup.md) ELSE tags]

\* the body of organize_file's try block, from the counters on: the set of
\* [st, outcome, exc] it can end in
Place(st, file_path, dest_path) ==
    LET counted == Count(st, IF IsUnorganized(dest_path) THEN "unorganized" ELSE "organized")
        Art(s) == IF IsUnorganized(dest_path) THEN {s}
                  ELSE copy_album_art(s, Parent(file_path), Parent(dest_path))
        made == [counted EXCEPT !.fs = MkdirResult(@, Parent(dest_path))]
        moved == [made EXCEPT !.fs = MoveResult(@, file_path, dest_path),
                              !.transfers = @ + 1]
        copied == [made EXCEPT !.fs = CopyResult(@, file_path, dest_path),
                               !.transfers = @ + 1]
    IN  IF dry_run
        THEN {[st |-> s, outcome |-> "dry_run", exc |-> FALSE] : s \in Art(counted)}
        ELSE IF MkdirRaises(counted.fs, Parent(dest_path))
             THEN {[st |-> counted, outcome |-> "mkdir_raised", exc |-> TRUE]}
        ELSE IF move_files
             THEN IF MoveRaises(made.fs, faulty, file_path, dest_path)
                  THEN {[st |-> made, outcome |-> "transfer_raised", exc |-> TRUE]}
                  ELSE {[st |-> s, outcome |-> "moved", exc |-> FALSE] : s \in Art(moved)}
        ELSE IF CopyRaises(made.fs, faulty, file_path, dest_path)
             THEN {[st |-> made, outcome |-> "transfer_raised", exc |-> TRUE]}
             ELSE {[st |-> s, outcome |-> "copied", exc |-> FALSE] : s \in Art(copied)}

\* a variant that forgets the errors counter
HandleUncounted(r) == [st |-> r.st, ret |-> ~r.exc, escaped |-> FALSE]

\* except Exception: self.stats['errors'] += 1; return False.  escaped says
\* whether the exception leaves organize_file
Handle(r) ==
    IF r.exc THEN [st |-> Count(r.st, "errors"), ret |-> FALSE, escaped |-> FALSE]
    ELSE [st |-> r.st, ret |-> TRUE, escaped |-> FALSE]

organize_file(st, file_path) ==
    LET res == Resolve(st.fs, file_path)
        st1 == IF res.lookup.counted THEN Count(st, "metadata_found") ELSE st
        dest_path == get_destination_path(dest_dir, file_path, res.metadata)
        ends == IF AlreadyInPlace(file_path, dest_path)
                THEN {[st |-> Count(st1, "skipped"), outcome |-> "in_place", exc |-> FALSE]}
                ELSE IF SkipExisting(st1.fs, dest_path)
                     THEN {[st |-> Count(st1, "skipped"), outcome |-> "exists", exc |-> FALSE]}
                ELSE Place(st1, file_path, dest_path)
    IN  {[st |-> Handle(r).st,
          info |-> [file |-> file_path, tags |-> res.tags, looked_up |-> res.looked_up,
                    lookup |-> res.lookup, metadata |-> res.metadata,
                    dest |-> dest_path, outcome |-> r.outcome,
                    ret |-> Handle(r).ret, escaped |-> Handle(r).escaped]] : r \in ends}

(***************************************************************************)
(* find_audio_files: os.walk is top-down, and lists the entries of one     *)
(* directory in an order the filesystem chooses                            *)
(***************************************************************************)

AudioUnder(f, root) ==
    {p \in DOMAIN f : /\ IsFile(f, p)
                      /\ IsProperPrefix(root, p)
                      /\ Lower(Suffix(Name(p))) \in AUDIO_EXTENSIONS}

Orderings(S) ==
    {s \in [1..Cardinality(S) -> S] : \A i, j \in 1..Cardinality(S) : i # j => s[i] # s[j]}

\* a directory's own files come before those of its subdirectories, and the
\* files below one directory come one after the other
TopDown(s) ==
    /\ \A i, j \in 1..Len(s) :
          i < j => ~IsProperPrefix(Parent(s[j]), Parent(s[i]))
    /\ \A i, j, k \in 1..Len(s) :
          i < j /\ j < k =>
             \A d \in Prefixes(Parent(s[i])) :
                IsPrefix(d, s[k]) => IsPrefix(d, s[j])

find_audio_files(f, root) == {s \in Orderings(AudioUnder(f, root)) : TopDown(s)}

(***************************************************************************)
(* The program: __init__, organize, print_summary                          *)
(***************************************************************************)

NewStats ==
    [total_files |-> 0, organized |-> 0, unorganized |-> 0, metadata_found |-> 0,
     errors |-> 0, skipped |-> 0, album_art_copied |-> 0]

NoCall ==
    [file |-> <<>>, tags |-> EmptyDict, looked_up |-> FALSE, lookup |-> NoLookup,
     metadata |-> EmptyDict, dest |-> <<>>, outcome |-> "none", ret |-> TRUE,
     escaped |-> FALSE]

St == [fs |-> fs, stats |-> stats, processed |-> processed_album_art_dirs,
       art_log |-> art_log, transfers |-> transfers]

\* MusicOrganizer.__init__, and the history of a run that has not started
Construct ==
    /\ processed_album_art_dirs' = {}
    /\ stats' = NewStats
    /\ pc' = "start"
    /\ audio_files' = <<>>
    /\ calls' = <<>>
    /\ last' = NoCall
    /\ art_log' = <<>>
    /\ raised' = 0
    /\ transfers' = 0
    /\ summary_printed' = FALSE

Config == <<source_dir, dest_dir, dry_run, acoustid_api_key, move_files, faulty, fs0>>

History == <<calls, last, art_log, raised, transfers, summary_printed>>

\* organize: the source directory does not exist; return without a summary
SourceMissing ==
    /\ pc = "start"
    /\ ~Exists(fs, source_dir)
    /\ pc' = "returned"
    /\ UNCHANGED <<Config, History, san_vars, processed_album_art_dirs, stats, fs,
                   audio_files, run>>

\* organize: self.dest_dir.mkdir raises, and nothing in organize catches it
DestRootRaises ==
    /\ pc = "start"
    /\ Exists(fs, source_dir)
    /\ ~dry_run
    /\ MkdirRaises(fs, dest_dir)
    /\ pc' = "crashed"
    /\ UNCHANGED <<Config, History, san_vars, processed_album_art_dirs, stats, fs,
                   audio_files, run>>

\* a variant that creates the destination root in a dry run too
DestRootAlways(f) == MkdirResult(f, dest_dir)

\* if not self.dry_run: self.dest_dir.mkdir(parents=True, exist_ok=True)
DestRootResult(f) == IF dry_run THEN f ELSE MkdirResult(f, dest_dir)

\* organize, up to the loop: create the destination root, find the files
Discover ==
    /\ pc = "start"
    /\ Exists(fs, source_dir)
    /\ dry_run \/ ~MkdirRaises(fs, dest_dir)
    /\ fs' = DestRootResult(fs)
    /\ \E found \in find_audio_files(fs', source_dir) :
          /\ audio_files' = found
          /\ stats' = [stats EXCEPT !.total_files = Len(found)]
    /\ pc' = "loop"
    /\ UNCHANGED <<Config, History, san_vars, processed_album_art_dirs, run>>

\* one iteration of organize's loop: self.organize_file(file_path)
OrganizeFile ==
    /\ pc = "loop"
    /\ Len(calls) < Len(audio_files)
    /\ LET file_path == audio_files[Len(calls) + 1]
       IN  \E r \in organize_file(St, file_path) :
              /\ fs' = r.st.fs
              /\ stats' = r.st.stats
              /\ processed_album_art_dirs' = r.st.processed
              /\ art_log' = r.st.art_log
              /\ transfers' = r.st.transfers
              /\ last' = r.info
              /\ calls' = Append(calls, file_path)
              /\ raised' = raised + (IF r.info.outcome \in {"mkdir_raised", "transfer_raised"}
                                     THEN 1 ELSE 0)
              /\ pc' = IF r.info.escaped THEN "crashed" ELSE "loop"
    /\ UNCHANGED <<Config, san_vars, audio_files, summary_printed, run>>

\* organize, after the loop: self.print_summary()
PrintSummary ==
    /\ pc = "loop"
    /\ Len(calls) = Len(audio_files)
    /\ summary_printed' = TRUE
    /\ pc' = "done"
    /\ UNCHANGED <<Config, san_vars, processed_album_art_dirs, stats, fs, audio_files,
                   calls, last, art_log, raised, transfers, run>>

\* the program is started again on what the run before left behind
Rerun ==
    /\ pc \in {"done", "returned", "crashed"}
    /\ run < MaxRuns
    /\ run' = run + 1
    /\ Construct
    /\ UNCHANGED <<Config, san_vars, fs>>

(***************************************************************************)
(* The initial states: a music library, a destination, the command line    *)
(***************************************************************************)

Library == <<"lib">>

Elsewhere == <<"out">>

AudioSlots == {<<"lib", "a.mp3">>, <<"lib", "g.mp3">>, <<"lib", "d", "a.mp3">>}

NoFiles == [p \in {} |-> ""]

\* the file in the subdirectory is a tagged or an untagged one
DeepContents == {"full", "bare"}

Present(slots) == {p \in AudioSlots : slots[p] # "absent"}

\* the libraries of at most MaxFiles audio files: slot -> content
AudioChoices(contents) ==
    {[p \in Present(slots) |-> slots[p]] :
        slots \in {t \in [AudioSlots -> contents \cup {"absent"}] :
                      /\ Cardinality(Present(t)) <= MaxFiles
                      /\ \A p \in Present(t) : Len(p) > 2 => t[p] \in DeepContents}}

\* the file that may be unreadable, so that its transfer raises
FaultySlots == {<<"lib", "g.mp3">>}

ImageChoices ==
    {(<<"lib", "folder.jpeg">> :> "jpeg"),
     (<<"lib", "folder.jpeg">> :> "jpeg") @@ (<<"lib", "Front.PNG">> :> "png")}

\* what the destination holds beforehand: nothing, a track where the "full"
\* and "same" contents go, or a cover in their album directory
PriorChoices(dest) ==
    {NoFiles,
     (dest \o <<"AB", "BestOf", "02 - Song.mp3">>) :> "old",
     (dest \o <<"AB", "BestOf", "cover.jpeg">>) :> "art"}

Tree(files, dirs) ==
    LET ds == dirs \cup UNION {Prefixes(Parent(p)) : p \in DOMAIN files}
    IN  [p \in ds \cup DOMAIN files |->
            IF p \in DOMAIN files THEN FileEntry(files[p]) ELSE DirEntry]

Started ==
    /\ processed_album_art_dirs = {}
    /\ stats = NewStats
    /\ pc = "start"
    /\ audio_files = <<>>
    /\ calls = <<>>
    /\ last = NoCall
    /\ art_log = <<>>
    /\ raised = 0
    /\ transfers = 0
    /\ summary_printed = FALSE
    /\ run = 1
    /\ fs0 = fs
    /\ name_in = ""
    /\ name_out = ""
    /\ name_twice = ""

\* Choices that cannot change a run are not multiplied out: the API key
\* when no file has a fingerprint match, the prior content of the album
\* directory AB/BestOf when no file goes there, an unreadable file in a dry
\* run (which reads no file's data).
KeyChoices(audio) ==
    IF \E p \in DOMAIN audio : Content(audio[p]).matches # NoMatches
    THEN BOOLEAN ELSE {FALSE}

PriorFor(audio, dest) ==
    IF \E p \in DOMAIN audio : audio[p] \in {"full", "same"}
    THEN PriorChoices(dest) ELSE {NoFiles}

FaultyChoices(audio, dry) ==
    IF dry THEN {{}} ELSE SUBSET (DOMAIN audio \cap FaultySlots)

\* source and destination apart, or the library reorganized in place
Usual(contents, dry_runs) ==
    /\ source_dir = Library
    /\ dest_dir \in {Library, Elsewhere}
    /\ dry_run \in dry_runs
    /\ move_files \in BOOLEAN
    /\ \E audio \in AudioChoices(contents), images \in ImageChoices :
          /\ acoustid_api_key \in KeyChoices(audio)
          /\ faulty \in FaultyChoices(audio, dry_run)
          /\ \E prior \in PriorFor(audio, dest_dir) :
                fs = Tree(audio @@ images @@ prior, {Library})

\* a source directory that does not exist, or a destination that is a file
Unusual(dry_runs) ==
    /\ \/ source_dir = <<"gone">> /\ dest_dir = Elsewhere
          /\ fs = Tree(<<"lib", "a.mp3">> :> "full", {Library})
       \/ source_dir = Library /\ dest_dir = Elsewhere
          /\ fs = Tree((<<"lib", "a.mp3">> :> "full") @@ (Elsewhere :> "blob"), {Library})
    /\ dry_run \in dry_runs
    /\ move_files \in BOOLEAN
    /\ acoustid_api_key = FALSE
    /\ faulty = {}

Contents == {"full", "same", "bare", "bucket", "dotted", "partial", "broken"}

Init ==
    /\ Usual(Contents, BOOLEAN) \/ Unusual(BOOLEAN)
    /\ Started

Next ==
    \/ SourceMissing
    \/ DestRootRaises
    \/ Discover
    \/ OrganizeFile
    \/ PrintSummary

Spec == Init /\ [][Next]_vars

(***************************************************************************)
(* Claims about one run                                                    *)
(***************************************************************************)

Called == last.outcome # "none"

CopyMode == ~move_files /\ ~dry_run

\* the first segment of a path below the destination root
FirstBelowRoot(path) ==
    IF Len(path) > Len(dest_dir) THEN path[Len(dest_dir) + 1] ELSE ""

(***************************************************************************)
(* C1: the destination of a file has unorganized as its first segment      *)
(* below the destination root if and only if the merged metadata lacks     *)
(* one of artist, album, title.                                            *)
(***************************************************************************)
C1_UnorganizedIffInsufficient ==
    Called => (FirstBelowRoot(last.dest) = "unorganized" <=> ~Sufficient(last.metadata))

(***************************************************************************)
(* C2: in copy mode no step removes a path or changes what it holds, and a *)
(* call of organize_file whose destination exists and is not the source    *)
(* copies nothing, adds one to skipped, raises nothing and returns True.   *)
(***************************************************************************)
C2_CopyModeNeverOverwrites ==
    [][CopyMode =>
          /\ \A p \in DOMAIN fs : p \in DOMAIN fs' /\ fs'[p] = fs[p]
          /\ (calls' # calls /\ Exists(fs, last'.dest) /\ last'.dest # last'.file) =>
                /\ fs' = fs
                /\ transfers' = transfers
                /\ stats'.skipped = stats.skipped + 1
                /\ stats'.errors = stats.errors
                /\ stats'.organized = stats.organized
                /\ stats'.unorganized = stats.unorganized
                /\ raised' = raised
                /\ last'.ret
                /\ pc' = "loop"]_vars

\* a file was skipped because another file, with other content, is where it goes
C2_Witness ==
    /\ CopyMode
    /\ last.outcome = "exists"
    /\ stats.skipped >= 1
    /\ IsFile(fs, last.dest)
    /\ IsFile(fs, last.file)
    /\ fs[last.dest].content # fs[last.file].content

(***************************************************************************)
(* C4: organize calls organize_file on every discovered file in discovery  *)
(* order, counts one error for each call that raised in the placement      *)
(* steps, lets no exception out of the loop and reaches print_summary.     *)
(***************************************************************************)
C4_BatchNeverAborts ==
    /\ IsPrefix(calls, audio_files)
    /\ stats.errors = raised
    /\ ~last.escaped
    /\ pc = "crashed" => calls = <<>>
    /\ pc = "loop" =>
          \/ Len(calls) = Len(audio_files)
          \/ /\ Len(calls) < Len(audio_files)
             /\ organize_file(St, audio_files[Len(calls) + 1]) # {}
    /\ pc = "done" => calls = audio_files /\ summary_printed

\* the first file raised, the second was placed, the summary was printed
C4_Witness ==
    /\ pc = "done"
    /\ summary_printed
    /\ Len(calls) = 2
    /\ stats.errors = 1
    /\ last.ret
    /\ last.outcome \in {"copied", "moved"}

(***************************************************************************)
(* C5: with artist, album and title present the destination is the         *)
(* destination root, the sanitized artist, the sanitized album and a file  *)
(* name made of the track number (when there is one), the sanitized title  *)
(* and the extension of the source file; the tags A/B, Best*Of, Song, 02   *)
(* of an .mp3 give AB/BestOf/02 - Song.mp3.                                *)
(***************************************************************************)
C5_OrganizedPath ==
    (Called /\ Sufficient(last.metadata)) =>
        LET md == last.metadata
            ext == Suffix(Name(last.file))
            n == Len(dest_dir)
            title == sanitize_filename(md["title"])
        IN  /\ IsPrefix(dest_dir, last.dest)
            /\ Len(last.dest) = n + 3
            /\ last.dest[n + 1] = sanitize_filename(md["artist"])
            /\ last.dest[n + 2] = sanitize_filename(md["album"])
            /\ last.dest[n + 3] = IF "track" \in DOMAIN md
                                  THEN md["track"] \o " - " \o title \o ext
                                  ELSE title \o ext
            /\ (/\ md["artist"] = "A/B" /\ md["album"] = "Best*Of" /\ md["title"] = "Song"
                /\ "track" \in DOMAIN md /\ md["track"] = "02" /\ ext = ".mp3")
                  => last.dest = dest_dir \o <<"AB", "BestOf", "02 - Song.mp3">>

C5_Witness ==
    /\ Called
    /\ last.tags = [artist |-> "A/B", album |-> "Best*Of", title |-> "Song", track |-> "02"]
    /\ last.dest = dest_dir \o <<"AB", "BestOf", "02 - Song.mp3">>

(***************************************************************************)
(* C6: when a lookup result is merged into the embedded tags, every one of *)
(* artist, album, title that the embedded tags hold keeps its embedded     *)
(* value.                                                                  *)
(***************************************************************************)
C6_EmbeddedTagsWin ==
    (Called /\ last.lookup.found) =>
        \A k \in DOMAIN last.tags \cap RequiredKeys : last.metadata[k] = last.tags[k]

(***************************************************************************)
(* C8: after the first copy_album_art call for a source directory every    *)
(* later call for it returns at the visited check, so album_art_copied     *)
(* never exceeds the number of source directories visited.                 *)
(***************************************************************************)
C8_ArtOncePerDirectory ==
    /\ \A i, j \in 1..Len(art_log) :
          (i < j /\ art_log[i].src = art_log[j].src) =>
             /\ art_log[j].outcome = "visited"
             /\ art_log[j].wrote = <<>>
    /\ stats.album_art_copied <= Cardinality({art_log[i].src : i \in 1..Len(art_log)})
    /\ stats.album_art_copied <= Cardinality(processed_album_art_dirs)
    /\ stats.album_art_copied =
          Cardinality({i \in 1..Len(art_log) : art_log[i].wrote # <<>>})

\* two files of one directory were placed: art was copied for the first only
C8_Witness ==
    /\ ~dry_run
    /\ Len(art_log) = 2
    /\ art_log[1].src = art_log[2].src
    /\ art_log[1].outcome = "copied"
    /\ art_log[2].outcome = "visited"
    /\ art_log[1].dest # art_log[2].dest
    /\ stats.album_art_copied = 1

(***************************************************************************)
(* C9: copy_album_art writes a cover only into a directory that held none  *)
(* of cover.jpg, cover.jpeg, cover.png before, and writes it as cover.jpg  *)
(* or cover.png, a .jpeg image as cover.jpg.                               *)
(***************************************************************************)
C9_NeverOverwritesCover ==
    [][\A i \in (Len(art_log) + 1)..Len(art_log') :
          LET e == art_log'[i]
          IN  e.wrote # <<>> =>
                 /\ \A n \in {"cover.jpg", "cover.jpeg", "cover.png"} :
                       ~Exists(fs, e.dest \o <<n>>)
                 /\ Parent(e.wrote) = e.dest
                 /\ Name(e.wrote) \in {"cover.jpg", "cover.png"}
                 /\ Lower(Suffix(Name(e.image))) \in {".jpg", ".jpeg"}
                       => Name(e.wrote) = "cover.jpg"
                 /\ IsFile(fs', e.wrote)
                 /\ fs'[e.wrote].content = fs[e.image].content]_vars

\* a .jpeg image was copied, as cover.jpg
C9_Witness ==
    \E i \in 1..Len(art_log) :
        /\ art_log[i].outcome = "copied"
        /\ Name(art_log[i].image) = "folder.jpeg"
        /\ Name(art_log[i].wrote) = "cover.jpg"
        /\ IsFile(fs, art_log[i].wrote)

Outcomes == stats.organized + stats.unorganized + stats.skipped + stats.errors

(***************************************************************************)
(* C11: every call of organize_file adds exactly one to the sum of the     *)
(* counters organized, unorganized, skipped and errors, so that the sum    *)
(* equals the number of calls made so far and, once the run is over,       *)
(* total_files.                                                            *)
(***************************************************************************)
C11_OneIncrementPerFile ==
    /\ Outcomes = Len(calls)
    /\ pc = "done" => Outcomes = stats.total_files

(***************************************************************************)
(* Two runs in a row, neither a dry run                                    *)
(***************************************************************************)

RerunContents == {"full", "bare", "dotted"}

InitRerun ==
    /\ Usual(RerunContents, {FALSE}) \/ Unusual({FALSE})
    /\ Started

NextRerun ==
    \/ Next
    \/ Rerun

SpecRerun == InitRerun /\ [][NextRerun]_vars

(***************************************************************************)
(* C3: a second run with the same source, destination and mode, neither a  *)
(* dry run, copies and moves no track.                                     *)
(***************************************************************************)
C3_SecondRunTransfersNothing == run = 2 => transfers = 0

(***************************************************************************)
(* The sanitizer on its own: sanitize_filename applied to a string, and    *)
(* again to its result.  The inputs are a run of letters as long as the    *)
(* truncation limit or nearly so, or a short one, with a few characters of *)
(* every kind before and after it.                                         *)
(***************************************************************************)

AffixChars == {"b", " ", ".", "/", "\t"}

RECURSIVE Affixes(_)
Affixes(n) ==
    IF n = 0 THEN {""}
    ELSE Affixes(n - 1) \cup {s \o c : s \in Affixes(n - 1), c \in AffixChars}

RECURSIVE Pad(_)
Pad(n) ==
    IF n = 0 THEN ""
    ELSE Pad(n \div 2) \o Pad(n \div 2) \o (IF n % 2 = 1 THEN "a" ELSE "")

PadLengths(k) == {0, 1} \cup ((MAX_NAME_LEN - k)..(MAX_NAME_LEN + 1))

SanitizerInputs(k) ==
    {pre \o Pad(n) \o post : pre \in Affixes(k), post \in Affixes(k), n \in PadLengths(k)}

InitSanitize ==
    /\ name_in \in SanitizerInputs(MaxAffix)
    /\ name_out = ""
    /\ name_twice = ""
    /\ source_dir = Library
    /\ dest_dir = Elsewhere
    /\ dry_run = TRUE
    /\ move_files = FALSE
    /\ acoustid_api_key = FALSE
    /\ fs = Tree(NoFiles, {Library})
    /\ faulty = {}
    /\ processed_album_art_dirs = {}
    /\ stats = NewStats
    /\ pc = "sanitize"
    /\ audio_files = <<>>
    /\ calls = <<>>
    /\ last = NoCall
    /\ art_log = <<>>
    /\ raised = 0
    /\ transfers = 0
    /\ summary_printed = FALSE
    /\ run = 1
    /\ fs0 = fs

Sanitize ==
    /\ pc = "sanitize"
    /\ name_out' = sanitize_filename(name_in)
    /\ pc' = "sanitized"
    /\ UNCHANGED <<Config, History, processed_album_art_dirs, stats, fs, audio_files,
                   run, name_in, name_twice>>

SanitizeAgain ==
    /\ pc = "sanitized"
    /\ name_twice' = sanitize_filename(name_out)
    /\ pc' = "sanitized_twice"
    /\ UNCHANGED <<Config, History, processed_album_art_dirs, stats, fs, audio_files,
                   run, name_in, name_out>>

NextSanitize ==
    \/ Sanitize
    \/ SanitizeAgain

SpecSanitize == InitSanitize /\ [][NextSanitize]_vars

(***************************************************************************)
(* C7: sanitize_filename is idempotent: sanitizing the result of           *)
(* sanitize_filename gives that result again.                              *)
(***************************************************************************)
C7_Idempotent == pc = "sanitized_twice" => name_twice = name_out

====
